---- MODULE Spec2Model ----
(***************************************************************************)
(* Model of HelixALMRestAPIExample.py: the HALMResponse envelope, the      *)
(* request executor sendRequest and the field mutator setFieldValue.       *)
(*                                                                         *)
(* Python values are modelled as records of one shape, so that a str, a    *)
(* bool, a dict, a list and None stay distinguishable and comparable.      *)
(***************************************************************************)
EXTENDS Integers, Sequences, FiniteSets, TLC

VARIABLES
  status_code,   \* HALMResponse.status_code of the envelope last worked on
  data,          \* HALMResponse.data of that envelope
  out,           \* lines print() wrote during the last operation
  raised,        \* name of the exception that escaped the last operation, "" if none
  ret,           \* value the last operation returned (PyNone when it returns nothing)
  call,          \* the last operation and its arguments
  fieldsList     \* the field list getFieldValue and setFieldValue work on

vars == <<status_code, data, out, raised, ret, call, fieldsList>>

---------------------------------------------------------------------------
(* Bounds *)

\* longest list under an 'errors' key
MaxErrors == 2

\* longest field list
MaxFields == 2

---------------------------------------------------------------------------
(* Python / JSON values *)

NoEnts == [k \in {} |-> 0]

PyNone == [kind |-> "none", ents |-> NoEnts, items |-> <<>>, n |-> 0, s |-> ""]
PyInt(i) == [kind |-> "int", ents |-> NoEnts, items |-> <<>>, n |-> i, s |-> ""]
PyStr(t) == [kind |-> "str", ents |-> NoEnts, items |-> <<>>, n |-> 0, s |-> t]
PyBool(b) == [kind |-> "bool", ents |-> NoEnts, items |-> <<>>, n |-> IF b THEN 1 ELSE 0, s |-> ""]
PyDict(d) == [kind |-> "dict", ents |-> d, items |-> <<>>, n |-> 0, s |-> ""]
PyList(l) == [kind |-> "list", ents |-> NoEnts, items |-> l, n |-> 0, s |-> ""]

\* key in container: dict tests its keys, list tests its elements; the other
\* payload kinds of the model (None, int, bool) are no containers: TypeError
CanContain(c) == c.kind \in {"dict", "list"}
PyIn(key, c) ==
  IF c.kind = "dict" THEN key \in DOMAIN c.ents
  ELSE \E i \in 1..Len(c.items) : c.items[i] = PyStr(key)

\* obj[key] as a read: the value, or the exception it raises
GetItem(obj, key) ==
  IF obj.kind # "dict" THEN [raised |-> "TypeError", v |-> PyNone]
  ELSE IF key \notin DOMAIN obj.ents THEN [raised |-> "KeyError", v |-> PyNone]
  ELSE [raised |-> "", v |-> obj.ents[key]]

\* obj[key] = v on a dict
SetItem(obj, key, v) ==
  PyDict([k \in DOMAIN obj.ents \cup {key} |-> IF k = key THEN v ELSE obj.ents[k]])

\* del obj[key] on a dict that has the key
DelItem(obj, key) ==
  PyDict([k \in DOMAIN obj.ents \ {key} |-> obj.ents[k]])

\* attribute names of the builtin types (the ones without underscores)
PyAttrs(kind) ==
  CASE kind = "dict" -> {"clear", "copy", "fromkeys", "get", "items", "keys", "pop",
                         "popitem", "setdefault", "update", "values"}
    [] kind = "list" -> {"append", "clear", "copy", "count", "extend", "index",
                         "insert", "pop", "remove", "reverse", "sort"}
    [] kind = "str" -> {"format", "join", "split", "strip", "encode", "lower", "upper"}
    [] kind = "int" -> {"bit_length", "to_bytes", "real", "imag"}
    [] kind = "bool" -> {"bit_length", "to_bytes", "real", "imag"}
    [] OTHER -> {}

hasattr(obj, name) == name \in PyAttrs(obj.kind)

\* str(v), as format() applies it to a positional argument
PyFormatArg(v) ==
  CASE v.kind = "int" -> ToString(v.n)
    [] v.kind = "str" -> v.s
    [] v.kind = "bool" -> IF v.n = 1 THEN "True" ELSE "False"
    [] v.kind = "none" -> "None"
    [] OTHER -> "<" \o v.kind \o ">"

---------------------------------------------------------------------------
(* class HALMResponse.  `self` is the record [status_code, data]; a method  *)
(* that changes the object yields [self, raised]: the object as the method *)
(* left it and the exception that escaped it ("" when it returned).        *)

HALMResponse(sc, d) == [status_code |-> sc, data |-> d]

Done(self) == [self |-> self, raised |-> ""]
Raise(self, exc) == [self |-> self, raised |-> exc]

\* a mutant of is_success: the upper end of the range taken inclusive
is_success_inclusive(self) == 200 <= self.status_code /\ self.status_code <= 300

is_success(self) == 200 <= self.status_code /\ self.status_code < 300

has_data(self) == self.data # PyNone

\* a mutant of set_http_error: without a statusCode the previous status is
\* kept when one was set, as the docstring describes
set_http_error_keep_previous(self, error, sc) ==
  LET s1 == [self EXCEPT !.data = error] IN
  IF sc = PyNone /\ ~CanContain(error) THEN Raise(s1, "TypeError")
  ELSE IF sc = PyNone /\ PyIn("statusCode", error)
  THEN Done([s1 EXCEPT !.status_code = error.ents["statusCode"].n])
  ELSE IF sc = PyNone
  THEN Done([s1 EXCEPT !.status_code = IF self.status_code = 0 THEN 500 ELSE self.status_code])
  ELSE Done([s1 EXCEPT !.status_code = sc.n])

set_http_error(self, error, sc) ==
  LET s1 == [self EXCEPT !.data = error] IN
  IF sc = PyNone /\ ~CanContain(error) THEN Raise(s1, "TypeError")
  ELSE IF sc = PyNone /\ PyIn("statusCode", error)
  THEN LET item == GetItem(error, "statusCode") IN
       IF item.raised # "" THEN Raise(s1, item.raised)
       ELSE Done([s1 EXCEPT !.status_code = item.v.n])
  ELSE IF sc = PyNone THEN Done([s1 EXCEPT !.status_code = 500])
  ELSE Done([s1 EXCEPT !.status_code = sc.n])

\* the error entry set_error builds
LocalError(message, sc) ==
  PyDict([message |-> message, statusCode |-> PyInt(sc), code |-> PyStr("")])

\* a mutant of set_error: a local error without a status counts as a 500
set_error_default_500(self, message, sc) ==
  LET sc1 == IF sc = PyNone THEN 500 ELSE sc.n
      d1 == IF ~ has_data(self) THEN PyDict(NoEnts) ELSE self.data
      s1 == [status_code |-> sc1, data |-> d1]
  IN IF d1.kind # "dict" THEN Raise(s1, "TypeError")
     ELSE Done([s1 EXCEPT !.data = SetItem(d1, "error", LocalError(message, sc1))])

set_error(self, message, sc) ==
  LET sc1 == IF sc = PyNone THEN self.status_code ELSE sc.n
      d1 == IF ~ has_data(self) THEN PyDict(NoEnts) ELSE self.data
      s1 == [status_code |-> sc1, data |-> d1]
  IN IF ~ hasattr(d1, "error") /\ ~ hasattr(d1, "error")
     THEN IF d1.kind # "dict" THEN Raise(s1, "TypeError")
          ELSE Done([s1 EXCEPT !.data = SetItem(d1, "error", LocalError(message, sc1))])
     ELSE Done(s1)

\* what a printing routine yields: the lines written and the exception that
\* escaped it ("" when it returned)
Printed(lines) == [out |-> lines, raised |-> ""]

\* "{0} - {1} - {2}".format(error['statusCode'], error['code'], error['message'])
FormatError(error) ==
  LET sc == GetItem(error, "statusCode")
      code == GetItem(error, "code")
      message == GetItem(error, "message")
  IN IF sc.raised # "" THEN [raised |-> sc.raised, line |-> ""]
     ELSE IF code.raised # "" THEN [raised |-> code.raised, line |-> ""]
     ELSE IF message.raised # "" THEN [raised |-> message.raised, line |-> ""]
     ELSE [raised |-> "",
           line |-> PyFormatArg(sc.v) \o " - " \o PyFormatArg(code.v) \o " - "
                      \o PyFormatArg(message.v)]

\* errors is the Python list handed over, as a sequence
RECURSIVE _print_errors(_)
_print_errors(errors) ==
  IF errors = <<>> THEN Printed(<<>>)
  ELSE LET f == FormatError(Head(errors)) IN
       IF f.raised # "" THEN [out |-> <<>>, raised |-> f.raised]
       ELSE LET rest == _print_errors(Tail(errors)) IN
            [out |-> <<f.line>> \o rest.out, raised |-> rest.raised]

NoErrorsLine == "Response indicates failure, but there are no errors to print."

\* a mutant of print_errors: a payload without an 'error' or 'errors' key is
\* not taken for an error object
print_errors_keyed_only(self) ==
  IF ~ is_success(self) /\ has_data(self)
  THEN IF ~ CanContain(self.data) THEN [out |-> <<>>, raised |-> "TypeError"]
       ELSE IF PyIn("error", self.data)
       THEN _print_errors(<<self.data.ents["error"]>>)
       ELSE IF PyIn("errors", self.data)
       THEN _print_errors(self.data.ents["errors"].items)
       ELSE Printed(<<NoErrorsLine>>)
  ELSE Printed(<<>>)

\* under 'errors' every payload of the model holds a list
print_errors(self) ==
  IF ~ is_success(self) /\ has_data(self)
  THEN IF ~ CanContain(self.data) THEN [out |-> <<>>, raised |-> "TypeError"]
       ELSE IF PyIn("error", self.data)
       THEN LET item == GetItem(self.data, "error") IN
            IF item.raised # "" THEN [out |-> <<>>, raised |-> item.raised]
            ELSE _print_errors(<<item.v>>)
       ELSE IF PyIn("errors", self.data)
       THEN LET item == GetItem(self.data, "errors") IN
            IF item.raised # "" THEN [out |-> <<>>, raised |-> item.raised]
            ELSE _print_errors(item.v.items)
       ELSE IF ~ is_success(self) /\ has_data(self)
       THEN _print_errors(<<self.data>>)
       ELSE Printed(<<NoErrorsLine>>)
  ELSE Printed(<<>>)

---------------------------------------------------------------------------
(* sendRequest.  The transport (urllib.request.urlopen and the read of the *)
(* response) is an input: `outcome` is what it did.                        *)
(*   kind "response":  urlopen returned, read() gave `body`                *)
(*   kind "HTTPError": urlopen raised HTTPError(code = status, fp = body)  *)
(*   kind "URLError":  urlopen raised URLError(reason)                     *)
(*   kind "Exception": any other exception with `args`, raised before      *)
(*                     (responded = FALSE) or after urlopen returned       *)
(* A body is the bytes read: empty, the JSON text of `value`, or bytes     *)
(* that are no JSON text.                                                  *)

HELIX_ALM_REST_API_URL == "https://localhost:8443/helix-alm/api/v0/"

EmptyBody == [kind |-> "empty", value |-> PyNone]
GarbageBody == [kind |-> "garbage", value |-> PyNone]
JsonBody(v) == [kind |-> "json", value |-> v]

\* json.loads of the decoded body
json_loads(body) ==
  IF body.kind = "json" THEN [raised |-> "", v |-> body.value]
  ELSE [raised |-> "JSONDecodeError", v |-> PyNone]

TroubleshootingLine ==
  "An error occurred when attempting to connect to " \o HELIX_ALM_REST_API_URL
    \o ".\n\tTroubleshooting advice: Is your REST API server running at that address? "
    \o "If you open " \o HELIX_ALM_REST_API_URL
    \o "versions in a browser, do you see a JSON response?"

\* what a call of sendRequest yields: whether it returned, the local `result`
\* as the call left it (the value returned, when it returned), the lines
\* printed and the exception that escaped ("" when it returned)
Returned(result, lines) ==
  [returned |-> TRUE, result |-> result, out |-> lines, raised |-> ""]
Escaped(result, exc, lines) ==
  [returned |-> FALSE, result |-> result, out |-> lines, raised |-> exc]

\* lines 276-284: the status of the response, the printing, the return
Finalize(result, outcome, lines) ==
  LET r1 == IF outcome.responded THEN [result EXCEPT !.status_code = outcome.status]
            ELSE result
  IN IF ~ is_success(r1)
     THEN LET p == print_errors(r1) IN
          IF p.raised # "" THEN Escaped(r1, p.raised, lines \o p.out)
          ELSE Returned(r1, lines \o p.out)
     ELSE Returned(r1, lines)

sendRequest(outcome) ==
  LET result == HALMResponse(0, PyNone) IN
  CASE outcome.kind = "HTTPError" ->
         LET parsed == json_loads(outcome.body) IN
         IF parsed.raised # "" THEN Escaped(result, parsed.raised, <<>>)
         ELSE LET r == set_http_error(result, parsed.v, PyInt(outcome.status)) IN
              IF r.raised # "" THEN Escaped(r.self, r.raised, <<>>)
              ELSE Finalize(r.self, outcome, <<>>)
    [] outcome.kind = "URLError" ->
         LET r == set_error(result, outcome.reason, PyNone) IN
         IF r.raised # "" THEN Escaped(r.self, r.raised, <<>>)
         ELSE Finalize(r.self, outcome, <<TroubleshootingLine>>)
    [] outcome.kind = "Exception" ->
         IF outcome.args = <<>> THEN Escaped(result, "IndexError", <<>>)
         ELSE LET r == set_error(result, outcome.args[1], PyNone) IN
              IF r.raised # "" THEN Escaped(r.self, r.raised, <<>>)
              ELSE Finalize(r.self, outcome, <<>>)
    [] OTHER ->
         IF outcome.body.kind # "empty"
         THEN LET parsed == json_loads(outcome.body) IN
              IF parsed.raised # "" THEN Escaped(result, parsed.raised, <<>>)
              ELSE Finalize([result EXCEPT !.data = parsed.v], outcome, <<>>)
         ELSE Finalize(result, outcome, <<>>)

---------------------------------------------------------------------------
(* Inputs *)

ErrorDetail(sc, code, message) ==
  PyDict([statusCode |-> PyInt(sc), code |-> PyStr(code), message |-> PyStr(message)])

BadRequest == ErrorDetail(400, "Bad Request", "Invalid field")
NotFound == ErrorDetail(404, "Not Found", "No such record")

ErrorDetails == {BadRequest, NotFound}

\* the lists an 'errors' key may hold: the first n errors of a response that
\* reports them in turn
ErrorLists ==
  {[i \in 1..n |-> IF i % 2 = 1 THEN BadRequest ELSE NotFound] : n \in 0..MaxErrors}

\* error bodies that are one error object, with and without the optional keys
FlatErrorBodies ==
  ErrorDetails \cup {SetItem(BadRequest, "errorElementPath", PyStr("/fields/0"))}

\* an error object the server sent without a statusCode
NoStatusBody == PyDict([code |-> PyStr("Error"), message |-> PyStr("Unknown")])

NestedErrorBodies ==
  {PyDict([error |-> e]) : e \in ErrorDetails}
    \cup {PyDict([errors |-> PyList(l)]) : l \in ErrorLists}

\* domain data, with the errors a partial success carries
DomainData ==
  {PyDict([projects |-> PyList(<<>>)])}
    \cup {PyDict([testRuns |-> PyList(<<>>), errors |-> PyList(l)]) : l \in ErrorLists}

Payloads ==
  {PyNone, PyDict(NoEnts), PyList(<<>>), PyList(<<BadRequest>>), NoStatusBody}
    \cup FlatErrorBodies \cup NestedErrorBodies \cup DomainData

StatusCodes == {0, 199, 200, 206, 299, 300}

Overrides == {PyNone, PyInt(403)}

Messages == {PyStr("A"), PyStr("B")}

Bodies == {EmptyBody, GarbageBody} \cup {JsonBody(v) : v \in Payloads}

NoOutcome ==
  [kind |-> "none", responded |-> FALSE, status |-> 0, body |-> EmptyBody,
   reason |-> PyNone, args |-> <<>>]

\* urlopen hands back the responses with a 2xx status and raises HTTPError
\* for the others
Outcomes ==
  {[NoOutcome EXCEPT !.kind = "response", !.responded = TRUE, !.status = st, !.body = b] :
      st \in {200, 206}, b \in Bodies}
    \cup {[NoOutcome EXCEPT !.kind = "HTTPError", !.status = st, !.body = b] :
      st \in {400, 403}, b \in Bodies}
    \cup {[NoOutcome EXCEPT !.kind = "URLError", !.reason = r] :
      r \in {PyStr("Connection refused")}}
    \cup {[NoOutcome EXCEPT !.kind = "Exception", !.args = a] :
      a \in {<<>>, <<PyStr("bad value")>>}}
    \cup {[NoOutcome EXCEPT !.kind = "Exception", !.responded = TRUE, !.status = 200,
                            !.args = a] :
      a \in {<<>>, <<PyStr("incomplete read")>>}}

---------------------------------------------------------------------------
(* The envelope and the request executor as a caller drives them *)

Self == HALMResponse(status_code, data)

NoCall ==
  [op |-> "", arg |-> PyNone, sc |-> PyNone, outcome |-> NoOutcome,
   label |-> "", value |-> PyNone]

Init ==
  /\ status_code = 0
  /\ data = PyNone
  /\ out = <<>>
  /\ raised = ""
  /\ ret = PyNone
  /\ call = [NoCall EXCEPT !.op = "__init__", !.sc = PyInt(0)]
  /\ fieldsList = <<>>

\* HALMResponse(status_code, data)
Construct(sc, d) ==
  /\ status_code' = HALMResponse(sc, d).status_code
  /\ data' = HALMResponse(sc, d).data
  /\ out' = <<>>
  /\ raised' = ""
  /\ ret' = PyNone
  /\ call' = [NoCall EXCEPT !.op = "__init__", !.arg = d, !.sc = PyInt(sc)]
  /\ UNCHANGED fieldsList

CallIsSuccess ==
  /\ ret' = PyBool(is_success(Self))
  /\ out' = <<>>
  /\ raised' = ""
  /\ call' = [NoCall EXCEPT !.op = "is_success"]
  /\ UNCHANGED <<status_code, data>>
  /\ UNCHANGED fieldsList

CallHasData ==
  /\ ret' = PyBool(has_data(Self))
  /\ out' = <<>>
  /\ raised' = ""
  /\ call' = [NoCall EXCEPT !.op = "has_data"]
  /\ UNCHANGED <<status_code, data>>
  /\ UNCHANGED fieldsList

CallSetHttpError(error, sc) ==
  LET r == set_http_error(Self, error, sc) IN
  /\ status_code' = r.self.status_code
  /\ data' = r.self.data
  /\ raised' = r.raised
  /\ out' = <<>>
  /\ ret' = PyNone
  /\ call' = [NoCall EXCEPT !.op = "set_http_error", !.arg = error, !.sc = sc]
  /\ UNCHANGED fieldsList

CallSetError(message, sc) ==
  LET r == set_error(Self, message, sc) IN
  /\ status_code' = r.self.status_code
  /\ data' = r.self.data
  /\ raised' = r.raised
  /\ out' = <<>>
  /\ ret' = PyNone
  /\ call' = [NoCall EXCEPT !.op = "set_error", !.arg = message, !.sc = sc]
  /\ UNCHANGED fieldsList

CallPrintErrors ==
  LET p == print_errors(Self) IN
  /\ out' = p.out
  /\ raised' = p.raised
  /\ ret' = PyNone
  /\ call' = [NoCall EXCEPT !.op = "print_errors"]
  /\ UNCHANGED <<status_code, data>>
  /\ UNCHANGED fieldsList

\* sendRequest(...): the envelope is the `result` the call built (line 230),
\* returned to the caller unless an exception escaped
CallSendRequest(outcome) ==
  LET r == sendRequest(outcome) IN
  /\ status_code' = r.result.status_code
  /\ data' = r.result.data
  /\ out' = r.out
  /\ raised' = r.raised
  /\ ret' = PyNone
  /\ call' = [NoCall EXCEPT !.op = "sendRequest", !.outcome = outcome]
  /\ UNCHANGED fieldsList

Next ==
  \/ \E sc \in StatusCodes, d \in Payloads : Construct(sc, d)
  \/ CallIsSuccess
  \/ CallHasData
  \/ \E error \in Payloads \ {PyNone}, sc \in Overrides : CallSetHttpError(error, sc)
  \/ \E message \in Messages, sc \in Overrides : CallSetError(message, sc)
  \/ CallPrintErrors
  \/ \E outcome \in Outcomes : CallSendRequest(outcome)

Spec == Init /\ [][Next]_vars

---------------------------------------------------------------------------
(* getFieldValue and setFieldValue.  A field is a dict with 'label', 'type' *)
(* and a value under the key its type names; a field list is a Python list *)
(* of fields, here a sequence.                                             *)

\* field[k1][k2] = v
SetNested(field, k1, k2, v) == SetItem(field, k1, SetItem(field.ents[k1], k2, v))

\* the body of the loop of setFieldValue for one field: the field as the
\* body left it and the exception that escaped it
SetOneField(field, label, value) ==
  IF field.ents["label"] # PyStr(label) THEN [field |-> field, raised |-> ""]
  ELSE IF field.ents["type"] = PyStr("menuItem")
  THEN LET f1 == SetNested(field, "menuItem", "label", value) IN
       IF "id" \notin DOMAIN f1.ents["menuItem"].ents
       THEN [field |-> f1, raised |-> "KeyError"]
       ELSE [field |-> SetItem(f1, "menuItem", DelItem(f1.ents["menuItem"], "id")),
             raised |-> ""]
  ELSE IF field.ents["type"] = PyStr("formattedString")
  THEN [field |-> SetNested(SetNested(field, "formattedString", "isFormatted",
                                      PyStr("false")),
                            "formattedString", "text", value),
        raised |-> ""]
  ELSE IF field.ents["type"] = PyStr("user")
  THEN [field |-> SetNested(field, "user", "username", value), raised |-> ""]
  ELSE [field |-> SetItem(field, field.ents["type"].s, value), raised |-> ""]

\* the loop runs over every field of the list and ends where an exception
\* escapes; the fields are changed in place
RECURSIVE setFieldValue(_, _, _)
setFieldValue(fields, label, value) ==
  IF fields = <<>> THEN [fieldsList |-> <<>>, raised |-> ""]
  ELSE LET one == SetOneField(Head(fields), label, value) IN
       IF one.raised # ""
       THEN [fieldsList |-> <<one.field>> \o Tail(fields), raised |-> one.raised]
       ELSE LET rest == setFieldValue(Tail(fields), label, value) IN
            [fieldsList |-> <<one.field>> \o rest.fieldsList, raised |-> rest.raised]

RECURSIVE getFieldValue(_, _)
getFieldValue(fields, label) ==
  IF fields = <<>> THEN PyNone
  ELSE IF Head(fields).ents["label"] = PyStr(label)
  THEN Head(fields).ents[Head(fields).ents["type"].s]
  ELSE getFieldValue(Tail(fields), label)

ScalarField(label, type, v) ==
  PyDict([k \in {"label", "type", type} |->
            IF k = "label" THEN PyStr(label) ELSE IF k = "type" THEN PyStr(type) ELSE v])

MenuItemField(label, item) ==
  PyDict([label |-> PyStr(label), type |-> PyStr("menuItem"), menuItem |-> item])

FormattedStringField(label, isFormatted, text) ==
  PyDict([label |-> PyStr(label), type |-> PyStr("formattedString"),
          formattedString |-> PyDict([isFormatted |-> PyBool(isFormatted),
                                      text |-> PyStr(text)])])

UserField(label, username) ==
  PyDict([label |-> PyStr(label), type |-> PyStr("user"),
          user |-> PyDict([username |-> PyStr(username)])])

\* fields as the server sends them; a menu item comes with or without an id
Fields ==
  {ScalarField("Summary", "string", PyStr("Crash on save")),
   MenuItemField("Priority", PyDict([id |-> PyInt(3), label |-> PyStr("Immediate")])),
   MenuItemField("Priority", PyDict([label |-> PyStr("Immediate")])),
   FormattedStringField("Description", TRUE, "<b>Steps</b>"),
   FormattedStringField("Description", FALSE, "Steps"),
   UserField("Entered by", "administrator")}

FieldLists == UNION {[1..n -> Fields] : n \in 0..MaxFields}

Labels == {"Summary", "Priority", "Description", "Entered by", "Severity"}

Values == {PyStr("Before Beta"), PyStr("hello")}

FieldInit ==
  /\ status_code = 0
  /\ data = PyNone
  /\ out = <<>>
  /\ raised = ""
  /\ ret = PyNone
  /\ call = NoCall
  /\ fieldsList \in FieldLists

CallGetFieldValue(label) ==
  /\ ret' = getFieldValue(fieldsList, label)
  /\ raised' = ""
  /\ out' = <<>>
  /\ call' = [NoCall EXCEPT !.op = "getFieldValue", !.label = label]
  /\ UNCHANGED <<status_code, data, fieldsList>>

CallSetFieldValue(label, value) ==
  LET r == setFieldValue(fieldsList, label, value) IN
  /\ fieldsList' = r.fieldsList
  /\ raised' = r.raised
  /\ ret' = PyNone
  /\ out' = <<>>
  /\ call' = [NoCall EXCEPT !.op = "setFieldValue", !.label = label, !.value = value]
  /\ UNCHANGED <<status_code, data>>

FieldNext ==
  \/ \E label \in Labels : CallGetFieldValue(label)
  \/ \E label \in Labels, value \in Values : CallSetFieldValue(label, value)

\* the field list and the envelope are separate objects: the field operations
\* are checked on their own
FieldSpec == FieldInit /\ [][FieldNext]_vars

---------------------------------------------------------------------------
(* Claims *)

IsSendRequest == call.op = "sendRequest"

\* C1: sendRequest never raises: whatever the transport did, the call returns
\* an envelope and no exception escapes to the caller.
C1_SendRequestNeverRaises == IsSendRequest => raised = ""

HasError(d) == d.kind = "dict" /\ "error" \in DOMAIN d.ents

\* C2: set_error never overwrites an 'error' entry that is already in the
\* payload: after the call the entry is the one that was there before it.
C2_FirstErrorWins ==
  [][(call'.op = "set_error" /\ HasError(data))
       => (HasError(data') /\ data'.ents["error"] = data.ents["error"])]_vars

\* C3: is_success() is true exactly when 200 <= status_code < 300, whatever
\* the payload is.
C3_IsSuccessIffRange ==
  call.op = "is_success" => ret = PyBool(status_code \in 200..299)

\* C3 witness: a successful envelope without a payload, asked is_success
C3_Witness ==
  call.op = "is_success" /\ ret = PyBool(TRUE) /\ data = PyNone /\ status_code = 299

\* the status set_http_error is to set: the override, else the statusCode of
\* the body, else 500
C4_Expected(error, sc) ==
  IF sc # PyNone THEN sc.n
  ELSE IF error.kind = "dict" /\ "statusCode" \in DOMAIN error.ents
  THEN error.ents["statusCode"].n
  ELSE 500

IsMatch(field, type) ==
  field.ents["label"] = PyStr(call.label) /\ field.ents["type"] = PyStr(type)

\* C5: setFieldValue on a formattedString field leaves it with text equal to
\* the new value and isFormatted equal to the boolean false.
C5_FormattedStringPlain ==
  call.op = "setFieldValue"
    => \A i \in 1..Len(fieldsList) :
         IsMatch(fieldsList[i], "formattedString")
           => /\ fieldsList[i].ents["formattedString"].ents["text"] = call.value
              /\ fieldsList[i].ents["formattedString"].ents["isFormatted"] = PyBool(FALSE)

\* C6: setFieldValue on a menuItem field completes without a fault and leaves
\* the selection with label equal to the new value and no 'id' key, whether
\* or not it had an 'id' before.
C6_MenuItemRelabelled ==
  call.op = "setFieldValue"
    => \A i \in 1..Len(fieldsList) :
         IsMatch(fieldsList[i], "menuItem")
           => /\ raised = ""
              /\ fieldsList[i].ents["menuItem"].ents["label"] = call.value
              /\ "id" \notin DOMAIN fieldsList[i].ents["menuItem"].ents

\* the errors a payload embeds: the one under 'error', else those under 'errors'
EmbeddedErrors(d) ==
  IF HasError(d) THEN <<d.ents["error"]>>
  ELSE IF d.kind = "dict" /\ "errors" \in DOMAIN d.ents THEN d.ents["errors"].items
  ELSE <<>>

\* C7: on an envelope with the partial-success status 206 whose payload has an
\* 'error' or 'errors' entry, print_errors writes one line per embedded error.
C7_PartialSuccessErrorsPrinted ==
  (call.op = "print_errors" /\ status_code = 206)
    => Len(out) = Len(EmbeddedErrors(data))

IsHttpErrorWithFlatBody ==
  /\ IsSendRequest
  /\ call.outcome.kind = "HTTPError"
  /\ call.outcome.body.kind = "json"
  /\ call.outcome.body.value \in FlatErrorBodies

\* C8: an HTTP error response with status S and a JSON error object B makes
\* sendRequest return an envelope with status_code = S (also when B.statusCode
\* differs), payload B and no success, and print exactly the one line
\* '<B.statusCode> - <B.code> - <B.message>'.
C8_HttpErrorReported ==
  IsHttpErrorWithFlatBody
    => LET B == call.outcome.body.value IN
       /\ raised = ""
       /\ status_code = call.outcome.status
       /\ data = B
       /\ status_code \notin 200..299
       /\ out = <<ToString(B.ents["statusCode"].n) \o " - " \o B.ents["code"].s
                    \o " - " \o B.ents["message"].s>>

\* C8 witness: the 400 of the scenario, body with errorElementPath included
C8_Witness ==
  /\ IsHttpErrorWithFlatBody
  /\ call.outcome.status = 400
  /\ "errorElementPath" \in DOMAIN data.ents
  /\ out = <<"400 - Bad Request - Invalid field">>

\* C9: a transport failure without any HTTP response makes sendRequest return
\* an envelope with no success, status_code 0 and a payload whose 'error'
\* entry carries the non-empty reason, statusCode 0 and an empty code.
C9_ConnectionFailureReported ==
  (IsSendRequest /\ call.outcome.kind = "URLError")
    => /\ raised = ""
       /\ status_code = 0
       /\ status_code \notin 200..299
       /\ HasError(data)
       /\ data.ents["error"]
            = PyDict([message |-> call.outcome.reason, statusCode |-> PyInt(0),
                      code |-> PyStr("")])
       /\ call.outcome.reason.s # ""

\* C9 witness: a refused connection
C9_Witness ==
  /\ IsSendRequest
  /\ call.outcome.kind = "URLError"
  /\ HasError(data)
  /\ data.ents["error"].ents["message"] = PyStr("Connection refused")

\* C10: set_error without a status leaves status_code unchanged and keeps
\* every entry of an existing payload with its value, and completes without a
\* fault whether the payload is a mapping, a sequence or absent.
C10_SetErrorPreservesPayload ==
  [][(call'.op = "set_error" /\ call'.sc = PyNone)
       => /\ raised' = ""
          /\ status_code' = status_code
          /\ data # PyNone
               => /\ data'.kind = data.kind
                  /\ data'.items = data.items
                  /\ \A k \in DOMAIN data.ents :
                       k \in DOMAIN data'.ents /\ data'.ents[k] = data.ents[k]]_vars

\* the places of the fields of a list that carry the label
Matches(fields, label) ==
  {i \in 1..Len(fields) : fields[i].ents["label"] = PyStr(label)}

\* the place of the first field that carries the label (0: none does)
FirstMatch(fields, label) ==
  IF Matches(fields, label) = {} THEN 0
  ELSE CHOOSE i \in Matches(fields, label) : \A j \in Matches(fields, label) : i <= j

\* the field but for the value under the key its type names
Frame(field) ==
  [k \in DOMAIN field.ents \ {field.ents["type"].s} |-> field.ents[k]]

\* C11: setFieldValue changes at most the value slot of the first field whose
\* label matches: every other field, later fields with the same label
\* included, is unchanged, the list keeps its length and order, and when no
\* field has the label the list is unchanged and no fault is raised.
C11_OnlyFirstMatchChanged ==
  [][call'.op = "setFieldValue"
       => LET first == FirstMatch(fieldsList, call'.label) IN
          /\ Len(fieldsList') = Len(fieldsList)
          /\ \A i \in 1..Len(fieldsList) :
               IF i = first
               THEN /\ fieldsList'[i].ents["type"] = fieldsList[i].ents["type"]
                    /\ Frame(fieldsList'[i]) = Frame(fieldsList[i])
               ELSE fieldsList'[i] = fieldsList[i]
          /\ first = 0 => raised' = ""]_vars

====
